---- MODULE Spec2Model ----
(***************************************************************************)
(* Model of sync.py: OdooWooCommerceStockSync, one run of                  *)
(*   connect_odoo -> get_all_products_stock -> update_woocommerce_stock*   *)
(* The network calls (version, authenticate, search_read, PUT) are the     *)
(* steps of the state machine; everything the code does between two calls  *)
(* belongs to the step of the call before it.                              *)
(***************************************************************************)
EXTENDS Integers, Sequences, FiniteSets, TLC

\* ------------------------------------------------------------------ bounds
\* Largest number of entries of product_mapping.json that is explored.
MaxMap == 3

\* A quantity (a float in the program) is held as a whole number of
\* 1/QtyScale units: with QtyScale = 2 the value 1 is 0.5 and 10 is 5.0.
QtyScale == 2

\* Largest quantity, in whole units, that is pushed by itself.
MaxUnits == 6

\* ------------------------------------------------------------ value domains
\* Barcodes that can be keys of the mapping.
Barcodes == 1..MaxMap

\* A value of an environment variable: unset (None), empty, or a text.
EnvValues == {"None", "", "v"}

\* Python truthiness of an environment value (None and "" are falsy).
Truthy(v) == v \notin {"None", ""}

\* Values of the mapping as json.load delivers them: a JSON string (a
\* sequence of characters) or a JSON number.
StrId(s) == [t |-> "str", s |-> s, n |-> 0]
NumId(n) == [t |-> "num", s |-> <<>>, n |-> n]
RawIds == {StrId(<<"5", "5">>), StrId(<<"7", "x">>), NumId(12)}

Digits == {"0", "1", "2", "3", "4", "5", "6", "7", "8", "9"}
DigitVal(c) ==
    CASE c = "0" -> 0 [] c = "1" -> 1 [] c = "2" -> 2 [] c = "3" -> 3
      [] c = "4" -> 4 [] c = "5" -> 5 [] c = "6" -> 6 [] c = "7" -> 7
      [] c = "8" -> 8 [] c = "9" -> 9

RECURSIVE Strip(_)
\* str.strip() as int() applies it: blanks at both ends are dropped.
Strip(s) ==
    IF s = <<>> THEN s
    ELSE IF Head(s) = " " THEN Strip(Tail(s))
    ELSE IF s[Len(s)] = " " THEN Strip(SubSeq(s, 1, Len(s) - 1))
    ELSE s

RECURSIVE DigitsValue(_, _)
DigitsValue(s, acc) ==
    IF s = <<>> THEN acc ELSE DigitsValue(Tail(s), 10 * acc + DigitVal(Head(s)))

AllDigits(s) == s # <<>> /\ \A i \in 1..Len(s) : s[i] \in Digits

\* int(wc_id): does the conversion succeed, and to what.
IntBody(s) == IF s # <<>> /\ Head(s) \in {"-", "+"} THEN Tail(s) ELSE s
IntParses(raw) ==
    IF raw.t = "num" THEN TRUE ELSE AllDigits(IntBody(Strip(raw.s)))
IntOf(raw) ==
    IF raw.t = "num" THEN raw.n
    ELSE LET s == Strip(raw.s)
         IN  IF Head(s) = "-" THEN 0 - DigitsValue(Tail(s), 0)
             ELSE DigitsValue(IntBody(s), 0)

\* The product table of the Source: the display name and the quantity on
\* hand (qty_available, in 1/QtyScale units) it holds for a barcode.
NameOf(b) == <<"name", b>>
QtyOf(b) == IF b % 2 = 1 THEN 0 ELSE 5 * b

\* What execute_kw(search_read) can deliver for one barcode: a one-element
\* list holding the record of the table, an empty list, or a raised
\* transport error.
SearchReplies == {"rows", "empty", "fault"}

\* What common.version() can deliver.
VersionReplies == {"dict_with_version", "dict_without_version", "not_a_dict", "fault"}

\* What common.authenticate() can deliver: a user id, a falsy value, a fault.
AuthReplies == {[kind |-> "uid", uid |-> 7], [kind |-> "uid", uid |-> 0],
                [kind |-> "fault", uid |-> 0]}

\* What requests.put can deliver: a response with a status, or a raised
\* transport error (timeout, DNS, reset).
PutReplies == {[kind |-> "http", status |-> 200], [kind |-> "http", status |-> 404],
               [kind |-> "http", status |-> 500], [kind |-> "transport", status |-> 0]}

\* All ordered mappings with distinct keys and at most MaxMap entries.
DistinctKeys(m) == \A i, j \in 1..Len(m) : i # j => m[i].barcode # m[j].barcode
Mappings ==
    UNION {{m \in [1..n -> [barcode : Barcodes, wc_id : RawIds]] : DistinctKeys(m)}
           : n \in 0..MaxMap}

\* What product_mapping.json can hold: nothing (no file), text that is not
\* JSON, a JSON object, a JSON array, a JSON number.
MappingFiles ==
    {[kind |-> k, entries |-> <<>>] : k \in {"absent", "garbage", "array", "number"}}
    \cup [kind : {"object"}, entries : Mappings]

\* load_product_mapping: the Python type of what it returns and, for a dict,
\* its items. json.load raises on text that is not JSON (the handler returns
\* {}); any JSON value it parses is returned as it is.
LoadProductMapping(file) ==
    CASE file.kind = "absent" -> [type |-> "dict", items |-> <<>>]
      [] file.kind = "garbage" -> [type |-> "dict", items |-> <<>>]
      [] file.kind = "object" -> [type |-> "dict", items |-> file.entries]
      [] file.kind = "array" -> [type |-> "list", items |-> <<>>]
      [] file.kind = "number" -> [type |-> "int", items |-> <<>>]

\* __init__: len(self.product_mapping) raises TypeError for a value without
\* a length; nothing catches it and the process ends with a traceback.
ConstructorRaises(type) == type = "int"

\* get_all_products_stock: self.product_mapping.items() raises
\* AttributeError unless the value is a dict.
ItemsRaises(type) == type # "dict"

VARIABLES
    odoo_url, odoo_db, odoo_username, odoo_password,  \* credentials (ENV)
    mapping_file,      \* the content of product_mapping.json
    mapping_type,      \* the Python type of self.product_mapping
    product_mapping,   \* ordered dict barcode -> wc_id, as loaded
    version_info,      \* local of connect_odoo: "unset", "dict", "not_a_dict"
    uid,               \* local of connect_odoo: -1 is unset
    odoo_uid,          \* 0 is None
    odoo_models,       \* is the object proxy set
    pc,                \* position of run(): "init","auth","fetching","pushing","done";
                       \* "crashed" when __init__ raised
    connect_result,    \* what connect_odoo returned: "pending","true","false"
    idx,               \* position of the loop of get_all_products_stock
    products_stock,    \* the dict get_all_products_stock builds
    fetched,           \* the dict sync_stock received from get_all_products_stock
    fetch_returned,    \* has get_all_products_stock returned
    pidx,              \* position of the loop of sync_stock
    total_updated, total_errors,
    success,           \* what run() returned: "pending","true","false"
    exit_code,         \* -1 while running
    version_calls, auth_calls,
    fetchLog,          \* calls of get_product_stock_by_barcode with what they returned
    pushLog            \* calls of update_woocommerce_stock with what they returned

vars == <<odoo_url, odoo_db, odoo_username, odoo_password, mapping_file,
          mapping_type, product_mapping, version_info, uid, odoo_uid, odoo_models, pc, connect_result, idx, products_stock,
          fetched, fetch_returned, pidx, total_updated, total_errors,
          success, exit_code, version_calls, auth_calls, fetchLog, pushLog>>

creds == <<odoo_url, odoo_db, odoo_username, odoo_password>>
session == <<odoo_uid, odoo_models>>
fetchState == <<idx, products_stock, fetched, fetch_returned, fetchLog>>
pushState == <<pidx, total_updated, total_errors, pushLog>>
calls == <<version_calls, auth_calls>>
loaded == <<mapping_file, mapping_type>>
handshake == <<version_info, uid>>

Init ==
    /\ odoo_url \in EnvValues
    /\ odoo_db \in EnvValues
    /\ odoo_username \in EnvValues
    /\ odoo_password \in EnvValues
    /\ mapping_file \in MappingFiles
    /\ mapping_type = LoadProductMapping(mapping_file).type
    /\ product_mapping = LoadProductMapping(mapping_file).items
    /\ version_info = "unset"
    /\ uid = -1
    /\ odoo_uid = 0
    /\ odoo_models = FALSE
    /\ pc = IF ConstructorRaises(mapping_type) THEN "crashed" ELSE "init"
    /\ connect_result = "pending"
    /\ idx = 1
    /\ products_stock = <<>>
    /\ fetched = <<>>
    /\ fetch_returned = FALSE
    /\ pidx = 1
    /\ total_updated = 0
    /\ total_errors = 0
    /\ success = "pending"
    /\ exit_code = IF ConstructorRaises(mapping_type) THEN 1 ELSE -1
    /\ version_calls = 0
    /\ auth_calls = 0
    /\ fetchLog = <<>>
    /\ pushLog = <<>>

\* ------------------------------------------------------------ connect_odoo
\* `missing` as it would be without the test of ODOO_PASSWORD.
Missing_NoPassword(url, db, username, password) ==
    (IF ~Truthy(url) THEN <<"ODOO_URL">> ELSE <<>>) \o
    (IF ~Truthy(db) THEN <<"ODOO_DB">> ELSE <<>>) \o
    (IF ~Truthy(username) THEN <<"ODOO_USERNAME/ODOO_USER">> ELSE <<>>)

\* The list `missing` of connect_odoo.
Missing(url, db, username, password) ==
    (IF ~Truthy(url) THEN <<"ODOO_URL">> ELSE <<>>) \o
    (IF ~Truthy(db) THEN <<"ODOO_DB">> ELSE <<>>) \o
    (IF ~Truthy(username) THEN <<"ODOO_USERNAME/ODOO_USER">> ELSE <<>>) \o
    (IF ~Truthy(password) THEN <<"ODOO_PASSWORD">> ELSE <<>>)

\* version_info.get('server_version', 'unknown') raises unless version_info
\* is a dict; a raised call of common.version() ends in the same handler.
VersionStepRaises(reply) == reply \in {"fault", "not_a_dict"}

\* version_info after `version_info = common.version()`: a raised call
\* leaves it unassigned.
VersionInfo(reply) ==
    CASE reply = "fault" -> "unset"
      [] reply = "not_a_dict" -> "not_a_dict"
      [] OTHER -> "dict"

\* uid after `uid = common.authenticate(...)`: a raised call leaves it
\* unassigned.
UidOf(reply) == IF reply.kind = "fault" THEN -1 ELSE reply.uid

\* The test of uid as it would be without `if not uid: raise`.
AuthStepRaises_OnlyFault(reply) == reply.kind = "fault"

\* `if not uid: raise`, or authenticate itself raised.
AuthStepRaises(reply) == reply.kind = "fault" \/ reply.uid = 0

\* ----------------------------------------------------------- run, __main__
\* run() returns ok and __main__ exits with 0 if success else 1.
ExitWith(ok) ==
    /\ pc' = "done"
    /\ success' = IF ok THEN "true" ELSE "false"
    /\ exit_code' = IF ok THEN 0 ELSE 1

\* get_all_products_stock returned stock to sync_stock:
\* `if not products_stock: return False`, else the push loop starts.
FetchDone(stock) ==
    /\ fetched' = stock
    /\ fetch_returned' = TRUE
    /\ IF stock = <<>>
       THEN ExitWith(FALSE)
       ELSE pc' = "pushing" /\ UNCHANGED <<success, exit_code>>

\* sync_stock starts: get_all_products_stock loops over the mapping (an
\* empty mapping ends the loop before any call; a mapping that is not a dict
\* raises, and the handler of sync_stock returns False).
BeginSync ==
    IF ItemsRaises(mapping_type)
    THEN ExitWith(FALSE) /\ UNCHANGED <<fetched, fetch_returned>>
    ELSE IF product_mapping = <<>>
    THEN FetchDone(<<>>)
    ELSE pc' = "fetching" /\ UNCHANGED <<success, exit_code, fetched, fetch_returned>>

\* run() as it would be without the test of connect_odoo's result.
RunOnConnect_Unchecked(ok) == BeginSync

\* run(): `if not self.connect_odoo(): return False`, else sync_stock().
RunOnConnect(ok) ==
    IF ok
    THEN BeginSync
    ELSE ExitWith(FALSE) /\ UNCHANGED <<fetched, fetch_returned>>

\* connect_odoo with a missing variable: raises before any network call.
ConnectMissing ==
    /\ pc = "init"
    /\ Missing(odoo_url, odoo_db, odoo_username, odoo_password) # <<>>
    /\ connect_result' = "false"
    /\ RunOnConnect(FALSE)
    /\ UNCHANGED <<creds, loaded, product_mapping, handshake, session, idx,
                   products_stock, pushState, calls, fetchLog>>

\* connect_odoo up to and including common.version() and the print of it.
CallVersion(reply) ==
    /\ pc = "init"
    /\ Missing(odoo_url, odoo_db, odoo_username, odoo_password) = <<>>
    /\ version_calls' = version_calls + 1
    /\ version_info' = VersionInfo(reply)
    /\ IF VersionStepRaises(reply)
       THEN connect_result' = "false" /\ RunOnConnect(FALSE)
       ELSE /\ pc' = "auth"
            /\ UNCHANGED <<connect_result, success, exit_code, fetched, fetch_returned>>
    /\ UNCHANGED <<creds, loaded, product_mapping, uid, session, idx,
                   products_stock, pushState, auth_calls, fetchLog>>

\* connect_odoo from common.authenticate() to its return, and run() after it.
CallAuthenticate(reply) ==
    /\ pc = "auth"
    /\ auth_calls' = auth_calls + 1
    /\ uid' = UidOf(reply)
    /\ IF AuthStepRaises(reply)
       THEN /\ connect_result' = "false"
            /\ RunOnConnect(FALSE)
            /\ UNCHANGED session
       ELSE /\ odoo_uid' = reply.uid
            /\ odoo_models' = TRUE
            /\ connect_result' = "true"
            /\ RunOnConnect(TRUE)
    /\ UNCHANGED <<creds, loaded, product_mapping, version_info, idx,
                   products_stock, pushState, version_calls, fetchLog>>

\* ------------------------------------------ get_product_stock_by_barcode
NoProduct == [found |-> FALSE, name |-> <<>>, barcode |-> 0, qty_available |-> 0]

\* The return value: the record of the first row, or None (NoProduct) when
\* the list is empty or execute_kw raised.
GetProductStockByBarcode(barcode, reply) ==
    IF reply = "rows"
    THEN [found |-> TRUE, name |-> NameOf(barcode), barcode |-> barcode,
          qty_available |-> QtyOf(barcode)]
    ELSE NoProduct

\* ------------------------------------------------ get_all_products_stock
\* A dict that puts a new key first instead of last.
DictSet_Prepend(d, barcode, value) == <<value>> \o d

\* products_stock[barcode] = value on an insertion-ordered dict.
DictSet(d, barcode, value) ==
    IF \E i \in 1..Len(d) : d[i].barcode = barcode
    THEN [i \in 1..Len(d) |-> IF d[i].barcode = barcode THEN value ELSE d[i]]
    ELSE Append(d, value)

\* The loop body with `if product and product['qty_available']:`.
StoreProduct_SkipZero(stock, barcode, wc_id, product) ==
    IF product.found /\ product.qty_available # 0
    THEN Append(stock, [barcode |-> barcode, name |-> product.name,
                        qty |-> product.qty_available, wc_id |-> IntOf(wc_id)])
    ELSE stock

\* The body of the loop for a product that was looked up and whose wc_id
\* converts: the dict after it.
StoreProduct(stock, barcode, wc_id, product) ==
    IF product.found
    THEN DictSet(stock, barcode,
                 [barcode |-> barcode, name |-> product.name,
                  qty |-> product.qty_available, wc_id |-> IntOf(wc_id)])
    ELSE stock

\* The loop as it would be if it stored the converted wc_id back into the
\* mapping.
MappingAfterStore_WriteBack(mapping, i, product) ==
    IF product.found /\ IntParses(mapping[i].wc_id)
    THEN [mapping EXCEPT ![i].wc_id = NumId(IntOf(mapping[i].wc_id))]
    ELSE mapping

\* self.product_mapping after the loop body for entry i: the body reads
\* the entry and assigns only to products_stock.
MappingAfterStore(mapping, i, product) == mapping

\* int(wc_id) raises inside the loop: nothing in get_all_products_stock
\* catches it, the handler of sync_stock returns False.
StoreRaises(wc_id, product) == product.found /\ ~IntParses(wc_id)

\* One iteration of the loop of get_all_products_stock: the search_read call
\* for the entry at idx and all the code up to the next network call.
FetchOne(reply) ==
    /\ pc = "fetching"
    /\ idx <= Len(product_mapping)
    /\ LET e == product_mapping[idx]
           product == GetProductStockByBarcode(e.barcode, reply)
       IN  /\ fetchLog' = Append(fetchLog, [barcode |-> e.barcode, ret |-> product])
           /\ product_mapping' = MappingAfterStore(product_mapping, idx, product)
           /\ IF StoreRaises(e.wc_id, product)
              THEN /\ ExitWith(FALSE)
                   /\ UNCHANGED <<idx, products_stock, fetched, fetch_returned>>
              ELSE LET stock == StoreProduct(products_stock, e.barcode, e.wc_id, product)
                   IN  /\ products_stock' = stock
                       /\ idx' = idx + 1
                       /\ IF idx = Len(product_mapping)
                          THEN FetchDone(stock)
                          ELSE UNCHANGED <<pc, success, exit_code, fetched, fetch_returned>>
    /\ UNCHANGED <<creds, loaded, handshake, session, connect_result,
                   pushState, calls>>

\* ---------------------------------------------- update_woocommerce_stock
\* response.raise_for_status(): raises HTTPError for 4xx and 5xx.
RaisesForStatus(status) == status >= 400 /\ status < 600

\* What update_woocommerce_stock returns for what requests.put delivered,
\* and the line it logs.
UpdateWooCommerceStock(reply) ==
    IF reply.kind = "transport"
    THEN [ret |-> FALSE, outcome |-> "TransportError"]
    ELSE IF ~RaisesForStatus(reply.status)
    THEN [ret |-> TRUE, outcome |-> "Success"]
    ELSE IF reply.status = 404
    THEN [ret |-> FALSE, outcome |-> "NotFound"]
    ELSE [ret |-> FALSE, outcome |-> "HttpError"]

\* int() as it would be if it rounded down instead of towards zero.
IntOfQty_Floor(q) == q \div QtyScale

\* int(stock_quantity) on a float: the fraction is cut off, towards zero.
IntOfQty(q) ==
    IF q >= 0 THEN q \div QtyScale ELSE 0 - ((0 - q) \div QtyScale)

\* The status as it would be if it were taken from the converted quantity.
StockStatus_OfInt(q) == IF IntOfQty(q) > 0 THEN "instock" ELSE "outofstock"

\* 'instock' if stock_quantity > 0 else 'outofstock', on the argument.
StockStatus(q) == IF q > 0 THEN "instock" ELSE "outofstock"

\* The JSON body of the PUT.
Payload(q) ==
    [stock_quantity |-> IntOfQty(q), manage_stock |-> TRUE,
     stock_status |-> StockStatus(q)]

\* ------------------------------------------------------------- sync_stock
\* The counter as it would be if every push counted as an update.
CountUpdated_Always(n, ret) == n + 1

\* The loop as it would be if a failed push ended it.
LoopContinues_StopOnError(ret) == ret

\* `if update(...): total_updated += 1 else: total_errors += 1`
CountUpdated(n, ret) == IF ret THEN n + 1 ELSE n
CountErrors(n, ret) == IF ret THEN n ELSE n + 1

\* Does the push loop go on to the next item after a call that returned ret.
LoopContinues(ret) == TRUE

\* One iteration of the loop of sync_stock: the PUT for the item at pidx and
\* all the code up to the next network call (the summary and `return True`
\* after the last item).
PushOne(reply) ==
    /\ pc = "pushing"
    /\ pidx <= Len(fetched)
    /\ LET data == fetched[pidx]
           r == UpdateWooCommerceStock(reply)
       IN  /\ pushLog' = Append(pushLog,
                  [wc_id |-> data.wc_id, qty |-> data.qty, name |-> data.name,
                   payload |-> Payload(data.qty),
                   reply |-> reply, outcome |-> r.outcome, ret |-> r.ret])
           /\ total_updated' = CountUpdated(total_updated, r.ret)
           /\ total_errors' = CountErrors(total_errors, r.ret)
           /\ pidx' = pidx + 1
           /\ IF pidx = Len(fetched) \/ ~LoopContinues(r.ret)
              THEN ExitWith(TRUE)
              ELSE UNCHANGED <<pc, success, exit_code>>
    /\ UNCHANGED <<creds, loaded, product_mapping, handshake, session,
                   connect_result, idx, products_stock, fetched, fetch_returned,
                   calls, fetchLog>>

Next ==
    \/ ConnectMissing
    \/ \E reply \in VersionReplies : CallVersion(reply)
    \/ \E reply \in AuthReplies : CallAuthenticate(reply)
    \/ \E reply \in SearchReplies : FetchOne(reply)
    \/ \E reply \in PutReplies : PushOne(reply)

Spec == Init /\ [][Next]_vars

\* ------------------------------------- update_woocommerce_stock by itself
\* The quantities update_woocommerce_stock is called with.
PayloadQuantities == (0 - MaxUnits * QtyScale)..(MaxUnits * QtyScale)

\* A run at the start of its push loop with one fetched record, whose
\* quantity is any of PayloadQuantities.
PayloadInit ==
    /\ odoo_url = "v" /\ odoo_db = "v" /\ odoo_username = "v" /\ odoo_password = "v"
    /\ mapping_file = [kind |-> "object",
                       entries |-> <<[barcode |-> 1, wc_id |-> NumId(12)]>>]
    /\ mapping_type = "dict"
    /\ product_mapping = mapping_file.entries
    /\ version_info = "dict"
    /\ uid = 7
    /\ odoo_uid = 7
    /\ odoo_models = TRUE
    /\ pc = "pushing"
    /\ connect_result = "true"
    /\ idx = 2
    /\ \E q \in PayloadQuantities :
          /\ products_stock = <<[barcode |-> 1, name |-> NameOf(1), qty |-> q,
                                 wc_id |-> 12]>>
          /\ fetchLog = <<[barcode |-> 1,
                           ret |-> [found |-> TRUE, name |-> NameOf(1),
                                    barcode |-> 1, qty_available |-> q]]>>
    /\ fetched = products_stock
    /\ fetch_returned = TRUE
    /\ pidx = 1
    /\ total_updated = 0
    /\ total_errors = 0
    /\ success = "pending"
    /\ exit_code = -1
    /\ version_calls = 1
    /\ auth_calls = 1
    /\ pushLog = <<>>

PayloadNext == \E reply \in PutReplies : PushOne(reply)

PayloadSpec == PayloadInit /\ [][PayloadNext]_vars

TypeOK ==
    /\ pc \in {"init", "auth", "fetching", "pushing", "done", "crashed"}
    /\ mapping_type \in {"dict", "list", "int"}
    /\ version_info \in {"unset", "dict", "not_a_dict"}
    /\ uid \in {-1, 0, 7}
    /\ connect_result \in {"pending", "true", "false"}
    /\ success \in {"pending", "true", "false"}
    /\ exit_code \in {-1, 0, 1}
    /\ idx \in 1..(Len(product_mapping) + 1)
    /\ pidx \in 1..(Len(fetched) + 1)

\* ================================================================ claims
WasFound(e) == e.ret.found
\* The calls of get_product_stock_by_barcode that returned a record, in order.
Found == SelectSeq(fetchLog, WasFound)
AnyMissing ==
    \/ odoo_url \in {"None", ""}
    \/ odoo_db \in {"None", ""}
    \/ odoo_username \in {"None", ""}
    \/ odoo_password \in {"None", ""}
Count(log, outcomes) == Cardinality({i \in 1..Len(log) : log[i].outcome \in outcomes})

\* C1: when connect_odoo fails (missing credentials, transport exception or
\* rejected authentication) the run ends at once with run() = False and exit
\* code 1, and no fetch and no push was made, whatever the mapping.
C1_ConnectFailureIsTerminal ==
    connect_result = "false" =>
        /\ pc = "done"
        /\ success = "false"
        /\ exit_code = 1
        /\ fetchLog = <<>>
        /\ pushLog = <<>>

\* Scenario B: three mapped entries, authenticate was called and rejected.
C1_Witness ==
    /\ pc = "done"
    /\ connect_result = "false"
    /\ auth_calls = 1
    /\ Len(product_mapping) = 3
    /\ exit_code = 1

\* C2 (as claimed): connect succeeded and the fetch phase yielded nothing
\* => the run is an overall success with exit code 0 and no push.
C2_EmptyFetchIsSuccess ==
    (connect_result = "true" /\ fetch_returned /\ fetched = <<>>) =>
        /\ pc = "done"
        /\ success = "true"
        /\ exit_code = 0
        /\ pushLog = <<>>

\* Entry i of the mapping was processed and faulted: its lookup returned no
\* record (not found or a raised call), or its wc_id does not convert.
FetchFaulted(i) ==
    \/ ~fetchLog[i].ret.found
    \/ ~IntParses(product_mapping[i].wc_id)

\* C3 (as claimed): a fault of one entry in the fetch phase never aborts the
\* batch: at the end of a connected run in which an entry faulted, every
\* entry of the mapping was fetched, every entry that was fetched without a
\* fault was pushed, and the run is an overall success.
C3_NoFetchFaultAborts ==
    (/\ pc = "done"
     /\ connect_result = "true"
     /\ \E i \in 1..Len(fetchLog) : FetchFaulted(i)) =>
        /\ Len(fetchLog) = Len(product_mapping)
        /\ Len(pushLog) =
             Cardinality({i \in 1..Len(fetchLog) : ~FetchFaulted(i)})
        /\ success = "true"

\* C4: update_woocommerce_stock returns a classified result for every
\* outcome of the PUT (2xx, 404, other status, transport failure), and the
\* push loop goes on after a failed push: while pushing, every item before
\* pidx has been pushed, and at the end every fetched item was pushed.
C4_PushFaultsNeverEscape ==
    /\ \A i \in 1..Len(pushLog) :
          LET p == pushLog[i]
          IN  /\ p.ret \in BOOLEAN
              /\ p.reply.kind = "transport" => p.outcome = "TransportError" /\ ~p.ret
              /\ (p.reply.kind = "http" /\ p.reply.status = 404) =>
                     p.outcome = "NotFound" /\ ~p.ret
              /\ (p.reply.kind = "http" /\ p.reply.status = 500) =>
                     p.outcome = "HttpError" /\ ~p.ret
              /\ (p.reply.kind = "http" /\ p.reply.status = 200) =>
                     p.outcome = "Success" /\ p.ret
    /\ pc = "pushing" => pidx <= Len(fetched) /\ Len(pushLog) = pidx - 1
    /\ (pc = "done" /\ fetch_returned) =>
          /\ Len(pushLog) = Len(fetched)
          /\ \A i \in 1..Len(fetched) : pushLog[i].wc_id = fetched[i].wc_id

\* A 404 on the first item, and the second item was pushed all the same.
C4_Witness ==
    /\ pc = "done"
    /\ Len(pushLog) >= 2
    /\ pushLog[1].outcome = "NotFound"
    /\ pushLog[2].wc_id = fetched[2].wc_id

\* C5 (as claimed): once connect_odoo succeeded the run is an overall
\* success with exit code 0.
C5_ConnectedRunSucceeds ==
    (pc = "done" /\ connect_result = "true") =>
        success = "true" /\ exit_code = 0

\* C6: total_updated + total_errors is the number of pushes made so far;
\* total_updated counts the pushes that succeeded, total_errors the others
\* (404 included); at the end of the run the sum is the number of records
\* get_all_products_stock returned, and entries skipped at fetch are counted
\* in neither (the sum is the number of lookups that returned a record).
C6_SummaryAccounting ==
    /\ total_updated + total_errors = Len(pushLog)
    /\ total_updated = Count(pushLog, {"Success"})
    /\ total_errors = Count(pushLog, {"NotFound", "HttpError", "TransportError"})
    /\ (pc = "done" /\ fetch_returned) =>
          /\ total_updated + total_errors = Len(fetched)
          /\ total_updated + total_errors = Len(Found)

\* A run with one entry skipped at fetch, one successful push and a 404.
C6_Witness ==
    /\ pc = "done"
    /\ Len(fetchLog) = 3
    /\ Len(fetched) = 2
    /\ total_updated = 1
    /\ total_errors = 1
    /\ \E i \in 1..Len(pushLog) : pushLog[i].outcome = "NotFound"

\* C7: the lookups are issued in the insertion order of the mapping, the
\* pushes in the order of the lookups that returned a record, and no push
\* is made before every lookup of the run was made.
C7_Ordering ==
    /\ Len(fetchLog) <= Len(product_mapping)
    /\ \A i \in 1..Len(fetchLog) : fetchLog[i].barcode = product_mapping[i].barcode
    /\ pushLog # <<>> => Len(fetchLog) = Len(product_mapping)
    /\ Len(pushLog) <= Len(Found)
    /\ \A i \in 1..Len(pushLog) :
          /\ pushLog[i].name = Found[i].ret.name
          /\ pushLog[i].qty = Found[i].ret.qty_available

\* Two pushes in a run whose mapping is not in key order and whose second
\* entry was skipped.
C7_Witness ==
    /\ pc = "done"
    /\ Len(fetchLog) = 3
    /\ ~fetchLog[2].ret.found
    /\ Len(pushLog) = 2
    /\ product_mapping[1].barcode > product_mapping[3].barcode

\* C8 (as claimed): in a connected run version and authenticate are called
\* at most once, the lookup exactly once per entry of the mapping, and the
\* push exactly once per record that was fetched.
C8_ExactlyOnce ==
    (pc = "done" /\ connect_result = "true") =>
        /\ version_calls <= 1
        /\ auth_calls <= 1
        /\ \A k \in 1..Len(product_mapping) :
              Cardinality({i \in 1..Len(fetchLog) :
                             fetchLog[i].barcode = product_mapping[k].barcode}) = 1
        /\ Len(pushLog) = Len(Found)

\* The wc_id the mapping holds for a barcode.
MappedId(b) ==
    LET i == CHOOSE j \in 1..Len(product_mapping) : product_mapping[j].barcode = b
    IN  product_mapping[i].wc_id

\* C9: what get_all_products_stock returns is exactly the entries whose
\* lookup returned a record, in order: each with the name and the quantity
\* the Source returned for it and the wc_id of the mapping as an integer;
\* an entry that was not found is left out and the loop goes on to the end.
C9_FetchAllOutput ==
    fetch_returned =>
        /\ Len(fetchLog) = Len(product_mapping)
        /\ Len(fetched) = Len(Found)
        /\ \A i \in 1..Len(fetched) :
              /\ fetched[i].barcode = Found[i].barcode
              /\ fetched[i].name = Found[i].ret.name
              /\ fetched[i].qty = Found[i].ret.qty_available
              /\ fetched[i].wc_id \in Int
              /\ MappedId(fetched[i].barcode) = StrId(<<"5", "5">>) => fetched[i].wc_id = 55
              /\ MappedId(fetched[i].barcode) = NumId(12) => fetched[i].wc_id = 12

\* The second of three entries was not found, the other two are returned,
\* with different quantities (one of them 0) and different identifiers.
C9_Witness ==
    /\ fetch_returned
    /\ Len(fetchLog) = 3
    /\ ~fetchLog[2].ret.found
    /\ Len(fetched) = 2
    /\ fetched[1].qty = 0
    /\ fetched[2].qty = 10
    /\ fetched[1].wc_id = 55
    /\ fetched[2].wc_id = 12

\* C10: with one of ODOO_URL, ODOO_DB, ODOO_USERNAME, ODOO_PASSWORD missing
\* connect_odoo makes no network call (neither version nor authenticate)
\* and returns False: the run ends by run() returning False.
C10_MissingCredentialNoNetwork ==
    AnyMissing =>
        /\ version_calls = 0
        /\ auth_calls = 0
        /\ pc \in {"init", "done", "crashed"}
        /\ pc = "done" => connect_result = "false" /\ success = "false"

\* Only the password is missing (empty), connect_odoo has returned.
C10_Witness ==
    /\ pc = "done"
    /\ Truthy(odoo_url) /\ Truthy(odoo_db) /\ Truthy(odoo_username)
    /\ odoo_password = ""
    /\ connect_result = "false"
    /\ version_calls = 0

Abs(n) == IF n >= 0 THEN n ELSE 0 - n

\* C11: for every quantity q update_woocommerce_stock is called with, the
\* payload has manage_stock = true, stock_quantity = q with its fraction cut
\* off (towards zero), and stock_status "instock" when q > 0 and
\* "outofstock" otherwise: 0 and -1 give "outofstock", 5 gives "instock".
C11_Payload ==
    \A i \in 1..Len(pushLog) :
        LET q == pushLog[i].qty
            pl == pushLog[i].payload
            sq == pl.stock_quantity
        IN  /\ pl.manage_stock = TRUE
            /\ sq \in Int
            /\ sq * q >= 0
            /\ Abs(sq) * QtyScale <= Abs(q)
            /\ Abs(q) - Abs(sq) * QtyScale < QtyScale
            /\ q > 0 => pl.stock_status = "instock"
            /\ q <= 0 => pl.stock_status = "outofstock"
            /\ q = 0 => sq = 0 /\ pl.stock_status = "outofstock"
            /\ q = 0 - QtyScale => sq = -1 /\ pl.stock_status = "outofstock"
            /\ q = 5 * QtyScale => sq = 5 /\ pl.stock_status = "instock"

\* A push of a negative quantity with a fraction (one unit and a part):
\* the payload holds -1.
C11_Witness ==
    /\ Len(pushLog) = 1
    /\ pushLog[1].qty = 0 - (QtyScale + 1)
    /\ pushLog[1].payload.stock_quantity = -1
    /\ pushLog[1].payload.stock_status = "outofstock"
    /\ pushLog[1].payload.manage_stock

\* C12 (as claimed): a missing mapping file and any malformed content (text
\* that is not JSON, JSON that is not an object) give the empty mapping
\* without a raise: nothing is fetched and nothing is pushed.
C12_LoadDegradesToEmpty ==
    mapping_file.kind \in {"absent", "garbage", "array", "number"} =>
        /\ pc # "crashed"
        /\ mapping_type = "dict"
        /\ product_mapping = <<>>
        /\ fetchLog = <<>>
        /\ pushLog = <<>>

\* C13 (as claimed): a run ends early only on a connection failure: when
\* run() has returned, either connect_odoo failed (and nothing was fetched
\* or pushed), or every entry of the mapping was fetched and every fetched
\* record was pushed.
C13_EarlyExitOnlyOnConnectFailure ==
    pc = "done" =>
        \/ connect_result = "false" /\ fetchLog = <<>> /\ pushLog = <<>>
        \/ /\ connect_result = "true"
           /\ Len(fetchLog) = Len(product_mapping)
           /\ Len(pushLog) = Len(Found)

\* C14: no step of the run changes the mapping (keys, values, order), its
\* type or the mapping file.
C14_MappingReadOnly ==
    [][/\ product_mapping' = product_mapping
       /\ mapping_type' = mapping_type
       /\ mapping_file' = mapping_file]_vars

\* A finished run that looked up three entries and pushed: the mapping is
\* still what the file holds.
C14_Witness ==
    /\ pc = "done"
    /\ Len(fetchLog) = 3
    /\ Len(pushLog) >= 2
    /\ mapping_file.kind = "object"
    /\ product_mapping = mapping_file.entries

\* C15 (as claimed): whatever version() returned (a dict with or without
\* server_version, or a value of another shape), authenticate is called and
\* connect_odoo succeeds exactly when authenticate returned a truthy uid.
C15_VersionIsDiagnosticOnly ==
    (connect_result # "pending" /\ version_info \in {"dict", "not_a_dict"}) =>
        /\ auth_calls = 1
        /\ connect_result = "true" <=> uid > 0

\* C16: a lookup is issued only with a truthy odoo_uid and the object proxy
\* set; when authenticate returned a falsy uid, connect_odoo returned False
\* and odoo_uid and odoo_models are still unset.
C16_SessionInvariant ==
    /\ (pc = "fetching" \/ fetchLog # <<>>) => odoo_uid > 0 /\ odoo_models
    /\ (auth_calls = 1 /\ uid = 0) =>
          connect_result = "false" /\ odoo_uid = 0 /\ ~odoo_models

\* A lookup was made and the next is due, with the session of uid 7.
C16_Witness ==
    /\ pc = "fetching"
    /\ Len(fetchLog) >= 1
    /\ odoo_uid = 7
    /\ odoo_models

\* C17 (as claimed): in every payload stock_status is "instock" exactly when
\* the stock_quantity of the same payload is greater than 0.
C17_PayloadSelfConsistent ==
    \A i \in 1..Len(pushLog) :
        pushLog[i].payload.stock_status = "instock"
            <=> pushLog[i].payload.stock_quantity > 0

\* C17 (amended): stock_status is "instock" exactly when the quantity the
\* Source reported is greater than 0; that is also when the stock_quantity
\* of the payload is greater than 0, except for a quantity strictly between
\* 0 and 1, whose payload has stock_quantity 0 and stock_status "instock".
C17_StatusFollowsSourceQuantity ==
    \A i \in 1..Len(pushLog) :
        LET q == pushLog[i].qty
            pl == pushLog[i].payload
        IN  /\ pl.stock_status = "instock" <=> q > 0
            /\ (q <= 0 \/ q >= QtyScale) =>
                   (pl.stock_status = "instock" <=> pl.stock_quantity > 0)
            /\ (q > 0 /\ q < QtyScale) =>
                   pl.stock_quantity = 0 /\ pl.stock_status = "instock"

\* A push of a quantity strictly between 0 and 1.
C17_Witness ==
    /\ Len(pushLog) = 1
    /\ pushLog[1].qty = 1
    /\ pushLog[1].payload.stock_quantity = 0
    /\ pushLog[1].payload.stock_status = "instock"

====
